---- MODULE Spec2Model ----
(***************************************************************************)
(* A model of the Audio-Enhancer helper scripts:                           *)
(*   vasr_server.py   the persistent request server and run_audiosr_cli    *)
(*   vasr_wrapper.py  the wrapper's server mode and try_run_audiosr_cli    *)
(* The file system, the external tools (audiosr, ffprobe, ffmpeg) and the  *)
(* clients are the environment: their outcomes are chosen with \E.         *)
(*                                                                         *)
(* vasr_server.py spells several return statements "return0, ..." and      *)
(* "return1, ...".  To Python these are expression statements building a   *)
(* tuple whose first element is the undefined name return0 / return1, so   *)
(* executing one raises NameError.  The model follows the file as written. *)
(***************************************************************************)
EXTENDS Integers, Sequences, FiniteSets, TLC

\* ------------------------------------------------------------------ bounds
NConn == 2            \* connections (or processes) the model lets arrive
MaxPieces == 2        \* recv() calls that return a part of one request
MaxListing == 3       \* directory entries in the locator's harness

Conns == 1..NConn

\* ------------------------------------------------------- names and markers
AUDIO_EXTS == {".wav", ".flac", ".mp3", ".m4a", ".ogg"}

\* str.lower() on the pieces a file name is made of
Lower(w) ==
  CASE w = "AudioSR" -> "audiosr"
    [] w = "Processed" -> "processed"
    [] w = "AUDIOSR" -> "audiosr"
    [] w = ".WAV" -> ".wav"
    [] w = ".Flac" -> ".flac"
    [] OTHER -> w

\* "<marker>" in f.name.lower(), for a marker that is one word
InName(marker, name) == \E i \in 1..Len(name) : Lower(name[i]) = marker

\* "_audiosr_processed_" in f.name.lower()
InNameJoined(name) ==
  \E i \in 1..Len(name) :
     /\ i + 4 <= Len(name)
     /\ Lower(name[i]) = "_"
     /\ Lower(name[i + 1]) = "audiosr"
     /\ Lower(name[i + 2]) = "_"
     /\ Lower(name[i + 3]) = "processed"
     /\ Lower(name[i + 4]) = "_"

IsAudio(e) == e.isfile /\ Lower(e.ext) \in AUDIO_EXTS

\* a locator that knows the joined marker only
MarkerMatchJoinedOnly(e) == InNameJoined(e.name)

MarkerMatch(e) ==
  \/ (InName("audiosr", e.name) /\ InName("processed", e.name))
  \/ InNameJoined(e.name)

\* max(seq, key = mtime): Python keeps the first maximal element
RECURSIVE PyMaxFrom(_, _, _)
PyMaxFrom(s, i, best) ==
  IF i > Len(s) THEN best
  ELSE PyMaxFrom(s, i + 1, IF s[i].mtime > s[best].mtime THEN i ELSE best)

PyMax(s) == s[PyMaxFrom(s, 2, 1)]

None == [none |-> TRUE]

\* _find_produced_in_dir on a listing: the entries of search_dir and of its
\* immediate subdirectories in iteration order, each entry
\* [id, name, ext, isfile, mtime, sub]; sub = 0 for an entry of search_dir
\* itself, d > 0 for an entry of its immediate subdirectory d.
find_produced_in_dir(exists, listing) ==
  IF ~exists THEN None
  ELSE
    LET top == SelectSeq(listing, LAMBDA e : e.sub = 0 /\ IsAudio(e))
        below == SelectSeq(listing, LAMBDA e : e.sub > 0 /\ IsAudio(e))
        files == top \o below
        marker_matches == SelectSeq(files, MarkerMatch)
    IN IF files = <<>> THEN None
       ELSE IF marker_matches # <<>> THEN PyMax(marker_matches)
       ELSE PyMax(files)

\* ------------------------------------------------------------- file system
\* A directory tree is a sequence of [f, c] (file, content) ordered by
\* modification time, oldest first; a file exists iff it is in the sequence,
\* and its place in the sequence is its mtime.
NoFile == [k |-> "none", of |-> "", by |-> 0]
Raw(f) == [k |-> "raw", of |-> f, by |-> 0]          \* the bytes of input f
Old == [k |-> "old", of |-> "", by |-> 0]            \* left by earlier work
Enh(f, t) == [k |-> "enh", of |-> f, by |-> t]       \* audiosr's output for f, run by t
Merged(t) == [k |-> "merged", of |-> "", by |-> t]   \* ffmpeg amerge of t's two channels

FExists(s, f) == \E i \in 1..Len(s) : s[i].f = f
FContent(s, f) == IF FExists(s, f) THEN s[CHOOSE i \in 1..Len(s) : s[i].f = f].c ELSE NoFile
FRemove(s, f) == SelectSeq(s, LAMBDA e : e.f # f)
FWrite(s, f, c) == Append(FRemove(s, f), [f |-> f, c |-> c])

\* The paths of the model.  Client k names input a<k> and output b<k>
\* ("distinct, traceable path tokens"); a1 lives in its own directory I, a2
\* in the output directory D, where both outputs live too.
InputOf(k) == IF k = 1 THEN "a1" ELSE "a2"
OutputOf(k) == IF k = 1 THEN "b1" ELSE "b2"
\* an output path that is a bare file name, as in {"input": "a.wav", "output": "b.wav"}
BareOutputOf(k) == IF k = 1 THEN "c1" ELSE "c2"
\* <save_dir>/<timestamp>/<stem>_AudioSR_Processed_48K.wav, audiosr's output
ProducedFor(infile) ==
  CASE infile = "a1" -> "p1"
    [] infile = "a2" -> "p2"
    [] infile = "left" -> "pL"
    [] infile = "right" -> "pR"
    [] OTHER -> "p2"

ProcessedName(stem) == <<stem, "_", "AudioSR", "_", "Processed", "_", "48K">>

FileInfo(f) ==
  CASE f = "a1" -> [dir |-> "I", sub |-> 0, name |-> <<"a1">>, ext |-> ".wav"]
    [] f = "a2" -> [dir |-> "D", sub |-> 0, name |-> <<"a2">>, ext |-> ".wav"]
    [] f = "b1" -> [dir |-> "D", sub |-> 0, name |-> <<"b1">>, ext |-> ".wav"]
    [] f = "b2" -> [dir |-> "D", sub |-> 0, name |-> <<"b2">>, ext |-> ".wav"]
    [] f = "c1" -> [dir |-> "", sub |-> 0, name |-> <<"c1">>, ext |-> ".wav"]
    [] f = "c2" -> [dir |-> "", sub |-> 0, name |-> <<"c2">>, ext |-> ".wav"]
    [] f = "old" -> [dir |-> "D", sub |-> 0, name |-> <<"old">>, ext |-> ".flac"]
    [] f = "p1" -> [dir |-> "D", sub |-> 1, name |-> ProcessedName("a1"), ext |-> ".wav"]
    [] f = "p2" -> [dir |-> "D", sub |-> 2, name |-> ProcessedName("a2"), ext |-> ".wav"]
    [] f = "q1" -> [dir |-> "D", sub |-> 0, name |-> ProcessedName("a1"), ext |-> ".wav"]
    [] f = "stray" -> [dir |-> "TMP", sub |-> 0, name |-> <<"stray">>, ext |-> ".mp3"]
    [] f = "left" -> [dir |-> "T", sub |-> 0, name |-> <<"left">>, ext |-> ".wav"]
    [] f = "right" -> [dir |-> "T", sub |-> 0, name |-> <<"right">>, ext |-> ".wav"]
    [] f = "merged" -> [dir |-> "T", sub |-> 0, name |-> <<"merged">>, ext |-> ".wav"]
    [] f = "pL" -> [dir |-> "T", sub |-> 1, name |-> ProcessedName("left"), ext |-> ".wav"]
    [] f = "pR" -> [dir |-> "T", sub |-> 1, name |-> ProcessedName("right"), ext |-> ".wav"]
    [] OTHER -> [dir |-> "X", sub |-> 0, name |-> <<f>>, ext |-> ".wav"]

\* the entries of directory dir and of its immediate subdirectories
Listing(s, dir) ==
  LET all == [i \in 1..Len(s) |->
                [id |-> s[i].f, name |-> FileInfo(s[i].f).name, ext |-> FileInfo(s[i].f).ext,
                 isfile |-> TRUE, mtime |-> i, sub |-> FileInfo(s[i].f).sub]]
  IN SelectSeq(all, LAMBDA e : FileInfo(e.id).dir = dir)

\* os.path.dirname(path): "" for a bare file name
dirname(f) == FileInfo(f).dir

\* os.makedirs(d, exist_ok = True) for a directory of the model, which
\* exists, or for "", which os.mkdir refuses with FileNotFoundError
makedirs(d) == d # ""

\* shutil.copyfile(src, dst) into a tree whose directory is writable or not;
\* [ok, fs]
copyfile(s, src, dst, writable) ==
  IF FExists(s, src) /\ writable
  THEN [ok |-> TRUE, fs |-> FWrite(s, dst, FContent(s, src))]
  ELSE [ok |-> FALSE, fs |-> s]

\* ------------------------------------------------------------------ clients
\* What a client puts on its connection: a body and how the body ends.
\*   body  "blank"    no text at all
\*         "garbage"  bytes that are not UTF-8 JSON
\*         "array"    a JSON value that is not an object
\*         "obj"      a JSON object; a key is Missing, "" or a path
\*   term  "nl"       the body, then a newline
\*         "eof"      the body, then the client shuts its sending side
\*         "midnl"    a newline inside the JSON text as well as after it
\*         "rst"      the client resets the connection before the newline
\*         "nl_gone"  the body, a newline, and the client is gone before
\*                    the response is sent
Missing == "<missing>"

Obj(i, o) == [t |-> "obj", input |-> i, output |-> o]
Blank == [t |-> "blank", input |-> Missing, output |-> Missing]
Garbage == [t |-> "garbage", input |-> Missing, output |-> Missing]
Array == [t |-> "array", input |-> Missing, output |-> Missing]

Bodies(k) ==
  {Garbage, Array,
   Obj(InputOf(k), OutputOf(k)),
   Obj(InputOf(k), Missing), Obj(InputOf(k), ""),
   Obj(Missing, OutputOf(k)), Obj("", OutputOf(k)), Obj(Missing, Missing)}

\* every way of ending a message goes with the valid request; the other
\* bodies come newline-terminated, and no text at all comes in three ways
Msgs(k) ==
  [body : {Obj(InputOf(k), OutputOf(k))}, term : {"nl", "eof", "midnl", "rst", "nl_gone"}]
    \cup [body : Bodies(k), term : {"nl"}]
    \cup [body : {Blank}, term : {"nl", "eof", "rst"}]

\* json.loads(data.decode("utf-8").strip()) followed by the two req.get()
\* calls, on what the read loop collected: data is "empty", "partial" (a
\* strict prefix of the text), "firstline" (the text up to its inner
\* newline) or "complete".  [ok, input, output] or [ok = FALSE, err].
ParseOk(i, o) == [ok |-> TRUE, input |-> i, output |-> o, err |-> ""]
ParseErr(e) == [ok |-> FALSE, input |-> Missing, output |-> Missing, err |-> e]

json_loads_and_get(body, data) ==
  IF data # "complete" THEN ParseErr("JSONDecodeError")
  ELSE CASE body.t = "blank" -> ParseErr("JSONDecodeError")
         [] body.t = "garbage" -> ParseErr("JSONDecodeError")
         [] body.t = "array" -> ParseErr("AttributeError: 'list' object has no attribute 'get'")
         [] OTHER -> ParseOk(body.input, body.output)

\* a validation that tests "is None" where the handlers test "not x"
FalsyNoneOnly(x) == x = Missing

\* Python's "not x" for the value of req.get(key): None and "" are falsy
Falsy(x) == x = Missing \/ x = ""

\* ---------------------------------------------------------------- responses
Resp(rc, so, se, i, o) == [rc |-> rc, stdout |-> so, stderr |-> se, inp |-> i, out |-> o]
NoResp == Resp(-1, "", "", "", "")

\* ------------------------------------------------------------------- state
VARIABLES
  program,      \* "vasr_server" | "vasr_wrapper_server" | "vasr_wrapper_cli"
  always_copy,  \* args.always_copy of vasr_server
  writable,     \* whether files can be created in the output directory
  msg,          \* msg[k]: what client k sends on its connection
  conn,         \* the accept loop's variable conn: the last accepted connection
  th,           \* th[t]: the locals of worker thread (or process) t
  fs,           \* the shared directories I and D
  fs0,          \* the directories as they were before the first request
  now,          \* time.time(), in ticks of the wrapper's poll interval
  listing,      \* the directory content handed to _find_produced_in_dir
  result,       \* what _find_produced_in_dir returned for it
  et,           \* et[p]: the state of enhance_track.py process p
  tmpdir,       \* the files of tempfile.gettempdir() that enhance_track wrote
  stereo,       \* two enhanced channel buffers and what enhance stacks from them
  delivered,    \* delivered[k]: the responses client k has received
  closed        \* closed[k]: the server closed connection k

vars == <<program, always_copy, writable, msg, conn, th, fs, fs0, now, listing, result,
          et, tmpdir, stereo, delivered, closed>>

\* what no request changes: the configuration, and the state of the programs
\* that are not running
config == <<program, always_copy, writable, msg, fs0, listing, result, et, tmpdir, stereo>>

NotCalled == [none |-> FALSE]

\* no channel buffers at hand: enhance is not at its STEREO recombination
NoFrames == [state |-> "none", frames |-> <<>>]
NotStacked == [left |-> <<>>, right |-> <<>>, out |-> NoFrames]

\* an enhance_track.py process that was not started
EtOff ==
  [pc |-> "off", argc |-> 0, exists |-> FALSE, nch |-> 0, N |-> 0, sr |-> 1, D2 |-> 2,
   mode |-> "", jobs |-> <<>>, job |-> 0, i |-> 0, chunk_samples |-> 0, segs |-> <<>>,
   parts |-> <<>>, enhanced |-> <<>>, temp_in |-> <<>>, out |-> [none |-> TRUE],
   stdout |-> <<>>, exc |-> "", rc |-> -1, log |-> <<>>]

NoRan == [tier |-> "", i |-> 0, exit |-> "", located |-> FALSE]

Thread0 ==
  [pc |-> "idle", sock |-> 0, data |-> "empty", got |-> 0, inp |-> "", out |-> "",
   resp |-> NoResp, last_rc |-> 1, tier |-> "", i |-> 0, last |-> NoRan,
   tmp |-> <<>>, effects |-> {}, exc |-> "", located |-> FALSE, end |-> 0,
   prod_l |-> "", prod_r |-> "", left_out |-> "", right_out |-> ""]

PlainTree == <<[f |-> "a1", c |-> Raw("a1")], [f |-> "a2", c |-> Raw("a2")]>>

\* The directory contents a run can start from: the inputs (or not), and
\* what earlier work left in D: nothing, an unrelated audio file, an earlier
\* produced file, an earlier output.  With a1 alone, D holds no file at all.
InitTrees ==
  { PlainTree,
    <<[f |-> "a2", c |-> Raw("a2")]>>,
    <<[f |-> "a1", c |-> Raw("a1")]>>,
    <<[f |-> "old", c |-> Old], [f |-> "a1", c |-> Raw("a1")], [f |-> "a2", c |-> Raw("a2")]>>,
    <<[f |-> "p2", c |-> Old], [f |-> "a1", c |-> Raw("a1")], [f |-> "a2", c |-> Raw("a2")]>>,
    <<[f |-> "a1", c |-> Raw("a1")], [f |-> "a2", c |-> Raw("a2")], [f |-> "b1", c |-> Old]>> }

Env(tree, w, ac) == [tree |-> tree, writable |-> w, always_copy |-> ac]
PlainEnv == Env(PlainTree, TRUE, FALSE)

\* the environments of vasr_server: enhancement over every tree, a
\* read-only output directory, and --always-copy with and without its input
ServerEnvs ==
  {Env(tr, TRUE, FALSE) : tr \in InitTrees}
    \cup {Env(PlainTree, FALSE, FALSE)}
    \cup {Env(PlainTree, w, TRUE) : w \in BOOLEAN}
    \cup {Env(<<[f |-> "a2", c |-> Raw("a2")]>>, TRUE, TRUE)}

Valid(m) == m.body.t = "obj" /\ ~Falsy(m.body.input) /\ ~Falsy(m.body.output)

\* a valid request whose output path has no directory part
BareMsg(k) == [body |-> Obj(InputOf(k), BareOutputOf(k)), term |-> "nl"]

\* The messages of a scenario.  Where a valid request starts the chain of
\* external commands, it ends with a newline and its client waits for the
\* response; the other ways of ending it go with the short handlers.  The
\* bare output name goes with --always-copy, where its directory is made.
MsgsIn(k, prog, env) ==
  IF prog = "vasr_server" /\ ~env.always_copy
  THEN {m \in Msgs(k) : Valid(m) => m.term = "nl"}
  ELSE IF prog = "vasr_server" THEN Msgs(k) \cup {BareMsg(k)}
  ELSE Msgs(k)

\* The servers: a program and its flags, the directories, and one message
\* per client.  The directories and flags vary only where a request can
\* reach them: when some client sends a valid request to vasr_server.
InitServer ==
  /\ program \in {"vasr_server", "vasr_wrapper_server"}
  /\ \E env \in (IF program = "vasr_server" THEN ServerEnvs ELSE {PlainEnv}) :
       /\ msg \in [Conns -> UNION {Msgs(k) \cup {BareMsg(k)} : k \in Conns}]
       /\ \A k \in Conns : msg[k] \in MsgsIn(k, program, env)
       /\ (\A k \in Conns : ~Valid(msg[k])) => env = PlainEnv
       /\ always_copy = env.always_copy
       /\ writable = env.writable
       /\ fs = env.tree
  /\ fs0 = fs
  /\ now = 0
  /\ listing = <<>>
  /\ result = NotCalled
  /\ stereo = NotStacked
  /\ et = [p \in Conns |-> EtOff]
  /\ tmpdir = {}
  /\ conn = 0
  /\ th = [t \in Conns |-> Thread0]
  /\ delivered = [k \in Conns |-> <<>>]
  /\ closed = [k \in Conns |-> FALSE]

\* ------------------------------------------------------ the accept loop
\* conn, addr = srv.accept(); threading.Thread(target = handler, args = (conn,)).start()
\* The thread's parameter is bound to the connection when the thread is made.
Accept ==
  /\ program \in {"vasr_server", "vasr_wrapper_server"}
  /\ conn < NConn
  /\ conn' = conn + 1
  /\ th' = [th EXCEPT ![conn + 1] = [@ EXCEPT !.pc = "recv", !.sock = conn + 1]]
  /\ UNCHANGED <<config, fs, now, delivered, closed>>

\* a handler that closes over the accept loop's variable instead of taking
\* the connection as its argument
SockOfLoopVariable(t) == conn

\* the socket a worker reads from and answers on: its own parameter
SockOf(t) == th[t].sock

\* ------------------------------------------------------ the read loop
\* chunk = c.recv(n); if not chunk: break; data += chunk; if b"\n" in chunk: break
\* One action is one recv() call.  What it returns is the network's choice:
\* a part of the text, all the rest of it, an empty chunk once the client
\* has shut its sending side, or ConnectionResetError.
RecvOutcomes(m, l) ==
  (IF l.data \in {"empty", "partial"} /\ m.body.t # "blank" /\ l.got + 1 < MaxPieces
   THEN {"part"} \cup (IF m.term = "midnl" THEN {"line1"} ELSE {}) ELSE {})
  \cup (IF l.data \in {"empty", "partial"} /\ ~(m.body.t = "blank" /\ m.term \in {"eof", "rst"})
        THEN {"rest"} ELSE {})
  \cup (IF m.term = "eof" /\ (l.data = "complete" \/ m.body.t = "blank") THEN {"eof"} ELSE {})
  \cup (IF m.term = "rst" THEN {"reset"} ELSE {})

Recv(t) ==
  /\ th[t].pc = "recv"
  /\ LET l == th[t]
         m == msg[SockOf(t)]
     IN \E o \in RecvOutcomes(m, l) :
          th' = [th EXCEPT ![t] =
            CASE o = "part" -> [l EXCEPT !.data = "partial", !.got = @ + 1]
              [] o = "line1" -> [l EXCEPT !.data = "firstline", !.got = @ + 1, !.pc = "handle"]
              [] o = "rest" ->
                   [l EXCEPT !.data = "complete", !.got = @ + 1,
                             !.pc = IF m.term \in {"nl", "midnl", "nl_gone"} THEN "handle" ELSE "recv"]
              [] o = "eof" -> [l EXCEPT !.pc = "handle"]
              \* recv raises.  _handle_conn: except Exception: pass, then finally.
              \* handle_client: try/finally only, so the exception leaves the handler.
              [] OTHER -> [l EXCEPT !.pc = "close",
                                    !.exc = IF program = "vasr_server" THEN ""
                                            ELSE "ConnectionResetError"]]
  /\ UNCHANGED <<config, conn, fs, now, delivered, closed>>

\* a process_enhance that reports success
process_enhance_ok(inp, out) == Resp(0, "", "", inp, out)

\* vasr_wrapper.process_enhance
process_enhance(inp, out) == Resp(9, "", "enhancement disabled: audiosr removed", inp, out)

\* _handle_conn from "if not data" to the dispatch (vasr_server)
InvalidRequest == Resp(5, "", "invalid request", "", "")
InternalError(e) == Resp(6, "", e, "", "")

\* the start of run_audiosr_cli: out_dir, the log directory, then the first
\* candidate of the single-file tier
StartCli(l, req) ==
  [l EXCEPT !.pc = "cand", !.inp = req.input, !.out = req.output,
            !.tier = "single", !.i = 1, !.last_rc = 1,
            !.effects = IF writable THEN @ \cup {"mkdir vasr_logs"} ELSE @]

handle_conn(t) ==
  /\ program = "vasr_server"
  /\ th[t].pc = "handle"
  /\ LET l == th[t]
         req == json_loads_and_get(msg[SockOf(t)].body, l.data)
     IN IF l.data = "empty"
        THEN \* if not data: return
             /\ th' = [th EXCEPT ![t] = [l EXCEPT !.pc = "close"]]
             /\ fs' = fs
        ELSE IF ~req.ok
        THEN /\ th' = [th EXCEPT ![t] = [l EXCEPT !.pc = "send", !.resp = InternalError(req.err)]]
             /\ fs' = fs
        ELSE IF Falsy(req.input) \/ Falsy(req.output)
        THEN /\ th' = [th EXCEPT ![t] = [l EXCEPT !.pc = "send", !.resp = InvalidRequest]]
             /\ fs' = fs
        ELSE IF always_copy
        THEN \* os.makedirs(os.path.dirname(out), exist_ok = True); shutil.copyfile(inp, out)
             LET made == makedirs(dirname(req.output))
                 cp == IF made THEN copyfile(fs, req.input, req.output, writable)
                       ELSE [ok |-> FALSE, fs |-> fs]
             IN /\ fs' = cp.fs
                /\ th' = [th EXCEPT ![t] =
                     [l EXCEPT !.pc = "send", !.inp = req.input, !.out = req.output,
                               !.effects = IF cp.ok THEN @ \cup {"copy"} ELSE @,
                               !.resp = IF cp.ok
                                        THEN Resp(0, "copied", "", req.input, req.output)
                                        ELSE Resp(7, "", IF made THEN "copy failed"
                                                         ELSE "[Errno 2] No such file or directory: ''",
                                                  req.input, req.output)]]
        ELSE /\ th' = [th EXCEPT ![t] = StartCli(l, req)]
             /\ fs' = fs
  /\ UNCHANGED <<config, conn, now, delivered, closed>>

\* handle_client from json.loads to the dispatch (vasr_wrapper --server)
handle_client(t) ==
  /\ program = "vasr_wrapper_server"
  /\ th[t].pc = "handle"
  /\ LET l == th[t]
         req == json_loads_and_get(msg[SockOf(t)].body, l.data)
     IN th' = [th EXCEPT ![t] =
          IF ~req.ok THEN [l EXCEPT !.pc = "send", !.resp = InternalError(req.err)]
          ELSE IF Falsy(req.input) \/ Falsy(req.output)
          THEN [l EXCEPT !.pc = "send", !.resp = InvalidRequest]
          ELSE [l EXCEPT !.pc = "send", !.inp = req.input, !.out = req.output,
                         !.resp = process_enhance(req.input, req.output)]]
  /\ UNCHANGED <<config, conn, fs, now, delivered, closed>>

\* c.sendall((json.dumps(resp) + "\n").encode("utf-8")) inside try/except:
\* the line reaches the client, or the client is gone and the error is dropped.
\* Nothing after this reads the handler's locals, which are left out from here.
Send(t) ==
  /\ th[t].pc = "send"
  /\ delivered' = IF msg[SockOf(t)].term # "nl_gone"
                   THEN [delivered EXCEPT ![SockOf(t)] = Append(@, th[t].resp)]
                   ELSE delivered
  /\ th' = [th EXCEPT ![t] = [Thread0 EXCEPT !.sock = th[t].sock, !.pc = "close"]]
  /\ UNCHANGED <<config, conn, fs, now, closed>>

\* finally: c.close(); the thread then ends, normally or with the exception
\* that left the handler, and its locals are gone
Close(t) ==
  /\ th[t].pc = "close"
  /\ closed' = [closed EXCEPT ![SockOf(t)] = TRUE]
  /\ th' = [th EXCEPT ![t] = [Thread0 EXCEPT !.sock = th[t].sock, !.exc = th[t].exc,
                                             !.pc = IF th[t].exc = "" THEN "done" ELSE "crashed"]]
  /\ UNCHANGED <<config, conn, fs, now, delivered>>

\* ------------------------------------------------- vasr_server.run_audiosr_cli
\* the candidate command forms of _run_candidates_and_find, in list order
ServerCandidates ==
  <<"python -m audiosr enhance -i -s -d", "python -m audiosr -i -s -d", "audiosr -i -s -d">>

\* What one subprocess.run of a candidate can do: raise FileNotFoundError,
\* raise another exception, or exit with code 0 or a nonzero code, having
\* written its output file under the save directory ("w") or not.  The exit
\* code is the tool's own: 3 and 6 stand for the nonzero ones.
CandOutcomes == {"fnf", "exc", "rc0", "rc0w", "rc3", "rc3w", "rc6"}
ExitCode(o) == CASE o \in {"rc0", "rc0w"} -> 0 [] o \in {"rc3", "rc3w"} -> 3
                 [] o = "rc6" -> 6
                 [] o = "fnf" -> 127 [] OTHER -> 1
Raised(o) == o \in {"fnf", "exc"}
Wrote(o) == o \in {"rc0w", "rc3w"}

\* "return0, ..." and "return1, ...": the name is undefined, NameError
NameError0 == "name 'return0' is not defined"
NameError1 == "name 'return1' is not defined"

\* The exception leaves run_audiosr_cli and is caught by _handle_conn's
\* except Exception as ex: resp = {"rc": 6, "stdout": "", "stderr": str(ex)}
RaiseToHandler(l, e) ==
  [l EXCEPT !.pc = "send", !.resp = Resp(6, "", e, l.inp, l.out)]

\* The candidate a worker ran last: its tier and place in the list, how it
\* ended, and whether an output was located after it
Ran(tier, i, o, found) ==
  [tier |-> tier, i |-> i,
   exit |-> IF Raised(o) THEN "raised" ELSE IF ExitCode(o) = 0 THEN "zero" ELSE "nonzero",
   located |-> found]

\* after the last candidate of a tier: return last_rc, ..., None to the
\* caller, whose prod_l or prod_r is then None ("")
AfterCandidates(l) ==
  CASE l.tier = "single" -> [l EXCEPT !.pc = "probe", !.i = 0]
    [] l.tier = "left" -> [l EXCEPT !.tier = "right", !.i = 1, !.prod_l = ""]
    [] OTHER -> [l EXCEPT !.pc = "merge", !.i = 0, !.prod_r = ""]

\* One pass of the for loop of _run_candidates_and_find: run candidate i of
\* the tier on infile with save_dir, then look for what it produced.
run_candidates_and_find(t) ==
  /\ program = "vasr_server"
  /\ th[t].pc = "cand"
  /\ LET l == th[t]
         infile == IF l.tier = "single" THEN l.inp ELSE l.tier
         shared == l.tier = "single"
     IN \E o \in CandOutcomes :
          /\ (Wrote(o) /\ shared) => writable
          /\ LET out_file == [f |-> ProducedFor(infile), c |-> Enh(infile, t)]
                 tree == IF shared THEN fs ELSE l.tmp
                 tree2 == IF Wrote(o) THEN FWrite(tree, out_file.f, out_file.c) ELSE tree
                 fs2 == IF shared THEN tree2 ELSE fs
                 expected == FExists(fs2, l.out)
                 found == find_produced_in_dir(TRUE, Listing(tree2, IF shared THEN "D" ELSE "T"))
                 located == ~Raised(o) /\ (expected \/ found # None)
                 l2 == [l EXCEPT !.last_rc = ExitCode(o),
                                 !.last = Ran(l.tier, l.i, o, located),
                                 !.located = @ \/ located,
                                 !.tmp = IF shared THEN @ ELSE tree2,
                                 !.effects = IF Wrote(o) THEN @ \cup {"tool output"} ELSE @]
             IN /\ fs' = fs2
                /\ th' = [th EXCEPT ![t] =
                     IF Raised(o) \/ (ExitCode(o) # 0 /\ ~located)
                     THEN \* continue
                          IF l.i < Len(ServerCandidates)
                          THEN [l2 EXCEPT !.i = @ + 1]
                          ELSE AfterCandidates(l2)
                     ELSE \* every path from here is a "return0, ..." line
                          RaiseToHandler(l2, NameError0)]
  /\ UNCHANGED <<config, conn, now, delivered, closed>>

\* 2) ffprobe: in_channels stays 0 unless ffprobe prints a number
Probe(t) ==
  /\ program = "vasr_server"
  /\ th[t].pc = "probe"
  /\ \E in_channels \in {0, 1, 2} :
       th' = [th EXCEPT ![t] =
         IF in_channels >= 2
         THEN [@ EXCEPT !.pc = "split", !.tmp = <<>>, !.effects = @ \cup {"mkdtemp"}]
         ELSE [@ EXCEPT !.pc = "final"]]
  /\ UNCHANGED <<config, conn, fs, now, delivered, closed>>

\* ffmpeg split, tried in two syntaxes.  A failed split, or an exception,
\* removes the temporary directory and reaches "return1, ...": NameError,
\* caught by the except around the split, whose own "return1, ..." raises
\* the NameError that leaves run_audiosr_cli.
Split(t) ==
  /\ program = "vasr_server"
  /\ th[t].pc = "split"
  /\ LET l == th[t]
     IN \E o \in {"ok1", "ok2", "fail", "exc"} :
          /\ (o \in {"ok1", "ok2"}) => FExists(fs, l.inp)
          /\ th' = [th EXCEPT ![t] =
               IF o \in {"ok1", "ok2"}
               THEN [l EXCEPT !.pc = "cand", !.tier = "left", !.i = 1,
                              !.tmp = <<[f |-> "left", c |-> Raw("left")],
                                        [f |-> "right", c |-> Raw("right")]>>]
               ELSE RaiseToHandler([l EXCEPT !.tmp = <<>>], NameError1)]
  /\ UNCHANGED <<config, conn, fs, now, delivered, closed>>

\* a merge that takes the left file for the right slot as well
right_out_left(prod_r) == "left"

\* left_out = prod_l or left; right_out = prod_r or right
left_out_of(prod_l) == IF prod_l # "" THEN prod_l ELSE "left"
right_out_of(prod_r) == IF prod_r # "" THEN prod_r ELSE "right"

\* ffmpeg merge of left_out and right_out.  Merged: the file is moved to output_path, then
\* "return0, ..." raises inside the try, the except copies the input over
\* the output and its "return1, ..." raises.  Not merged, or an exception:
\* the input is copied to the output and "return1, ..." raises.
Merge(t) ==
  /\ program = "vasr_server"
  /\ th[t].pc = "merge"
  /\ LET l == th[t]
     IN \E o \in {"ok", "fail", "exc"} :
          LET moved == IF o = "ok" /\ writable THEN FWrite(fs, l.out, Merged(t)) ELSE fs
              cp == copyfile(moved, l.inp, l.out, writable)
          IN /\ fs' = cp.fs
             /\ th' = [th EXCEPT ![t] =
                  RaiseToHandler([l EXCEPT !.tmp = <<>>,
                                           !.left_out = left_out_of(l.prod_l),
                                           !.right_out = right_out_of(l.prod_r),
                                           !.effects = IF moved # fs \/ cp.ok
                                                       THEN @ \cup {"copy"} ELSE @],
                                 NameError1)]
  /\ UNCHANGED <<config, conn, now, delivered, closed>>

\* Final fallback.  Every "return0, ..." and "return1, ..." in it raises
\* inside the outer try, whose except only logs: the function then ends at
\* "return rc, so, se" with the single-file tier's rc.
Final(t) ==
  /\ program = "vasr_server"
  /\ th[t].pc = "final"
  /\ LET l == th[t]
         produced_any == find_produced_in_dir(TRUE, Listing(fs, "D"))
         cp == IF produced_any # None
               THEN copyfile(fs, produced_any.id, l.out, writable)
               ELSE copyfile(fs, l.inp, l.out, writable)
     IN /\ fs' = cp.fs
        /\ th' = [th EXCEPT ![t] =
             [l EXCEPT !.pc = "send",
                       !.located = @ \/ produced_any # None,
                       !.effects = IF cp.ok THEN @ \cup {"copy"} ELSE @,
                       !.resp = Resp(l.last_rc, "so", "se", l.inp, l.out)]]
  /\ UNCHANGED <<config, conn, now, delivered, closed>>

\* ------------------------------------------- vasr_wrapper.try_run_audiosr_cli
\* The wrapper's single run is one process: worker 1, with input a1 and
\* output b1.  Its files carry a modification time m, in ticks of the poll
\* interval (0.5 s); the run starts at tick 0.
PollTimeout == 60        \* timeout = 30.0 s
PollInterval == 1        \* interval = 0.5 s
RecentTicks == 80        \* timeout + 10 s
WithinTicks == 1200      \* within_seconds = 600
MaxLag == 2              \* a pass of the poll loop takes up to this many ticks
                         \* more than its sleep: the scan of the directories,
                         \* and time.sleep returning late

WFile(f, c, m) == [f |-> f, c |-> c, m |-> m]
WWrite(s, f, c, m) == Append(FRemove(s, f), WFile(f, c, m))
MTime(s, f) == s[CHOOSE i \in 1..Len(s) : s[i].f = f].m

\* the candidate commands of try_run_audiosr_cli with their save_dir hint
\* (TRUE: out_dir, FALSE: None), in list order
WrapperCandidates ==
  <<[cmd |-> "python -m audiosr -i -s --model_name basic --device", save_dir |-> TRUE],
    [cmd |-> "python -m audiosr enhance --input_audio_file --output --device", save_dir |-> FALSE],
    [cmd |-> "python -m audiosr enhance -i -s --model_name basic --device", save_dir |-> TRUE],
    [cmd |-> "audiosr --input_audio_file --save_path --device", save_dir |-> TRUE],
    [cmd |-> "audiosr -i -s --device", save_dir |-> TRUE]>>

\* list(dict.fromkeys(xs)): the first occurrence of each element, in order
RECURSIVE Dedup(_)
Dedup(xs) ==
  IF xs = <<>> THEN <<>>
  ELSE LET init == Dedup(SubSeq(xs, 1, Len(xs) - 1))
           x == xs[Len(xs)]
       IN IF \E j \in 1..Len(init) : init[j] = x THEN init ELSE Append(init, x)

\* [out_dir, str(Path(inp).parent), tempfile.gettempdir(), os.getcwd()]
fallback_dirs == Dedup(<<FileInfo("b1").dir, FileInfo("a1").dir, "TMP", "CWD">>)
dirs_to_check(save_dir) == (IF save_dir THEN <<FileInfo("b1").dir>> ELSE <<>>) \o fallback_dirs

\* find_latest_audio_in_dir(directory, within_seconds = 600): the entries of
\* the directory itself only
find_latest_audio_in_dir(s, d, t_now) ==
  LET all == [i \in 1..Len(s) |->
                [id |-> s[i].f, name |-> FileInfo(s[i].f).name, ext |-> FileInfo(s[i].f).ext,
                 isfile |-> TRUE, mtime |-> s[i].m, sub |-> FileInfo(s[i].f).sub]]
      inDir == SelectSeq(all, LAMBDA e : FileInfo(e.id).dir = d /\ e.sub = 0 /\ IsAudio(e))
      cutoff == t_now - WithinTicks
      recent == SelectSeq(inDir, LAMBDA e : e.mtime >= cutoff)
      candidates == IF recent # <<>> THEN recent ELSE inDir
  IN IF candidates = <<>> THEN None ELSE PyMax(candidates)

\* one pass of the body of poll_for_output's while loop: the path it
\* returns, or None when it goes on to sleep
RECURSIVE PollDirs(_, _, _, _, _)
PollDirs(s, out, dirs, j, t_now) ==
  IF j > Len(dirs) THEN None
  ELSE LET found == find_latest_audio_in_dir(s, dirs[j], t_now)
       IN IF found # None /\ (found.id = out \/ t_now - found.mtime <= RecentTicks)
          THEN found
          ELSE PollDirs(s, out, dirs, j + 1, t_now)

PollOnce(s, out, dirs, t_now) ==
  IF FExists(s, out) THEN [id |-> out] ELSE PollDirs(s, out, dirs, 1, t_now)

\* what subprocess.run of a wrapper candidate can do: raise, or exit 0 or
\* nonzero having written nothing, the output path itself ("o") or an audio
\* file in out_dir ("d")
WCandOutcomes == {"exc", "rc0", "rc0o", "rc0d", "rc3", "rc3o", "rc3d"}
WExit(o) == IF o \in {"rc0", "rc0o", "rc0d"} THEN 0 ELSE IF o = "exc" THEN 1 ELSE 3

\* sys.exit(rc) of main()
Exit(l, rc) == [l EXCEPT !.pc = "exited", !.resp = Resp(rc, "", "", l.inp, l.out)]

\* after a candidate that did not return: the next one, or the fallback
NextCandidate(l) ==
  IF l.i < Len(WrapperCandidates) THEN [l EXCEPT !.pc = "wcand", !.i = @ + 1]
  ELSE [l EXCEPT !.pc = "wfallback"]

\* main() in single-run mode up to the call of try_run_audiosr_cli
WStart ==
  /\ program = "vasr_wrapper_cli"
  /\ th[1].pc = "idle"
  /\ th' = [th EXCEPT ![1] = [@ EXCEPT !.pc = "wcand", !.inp = "a1", !.out = "b1",
                                     !.tier = "wrapper", !.i = 1]]
  /\ UNCHANGED <<config, conn, fs, now, delivered, closed>>

\* subprocess.run(cmd) of candidate i and the branch on its return code
try_run_audiosr_cli(t) ==
  /\ program = "vasr_wrapper_cli"
  /\ th[t].pc = "wcand"
  /\ LET l == th[t]
     IN \E o \in WCandOutcomes :
          /\ (o \in {"rc0o", "rc0d", "rc3o", "rc3d"}) => writable
          /\ now' = now + 1
          /\ fs' = CASE o \in {"rc0o", "rc3o"} -> WWrite(fs, l.out, Enh(l.inp, t), now + 1)
                     [] o \in {"rc0d", "rc3d"} -> WWrite(fs, "q1", Enh(l.inp, t), now + 1)
                     [] OTHER -> fs
          /\ LET l2 == [l EXCEPT !.last = [tier |-> "wrapper", i |-> l.i,
                                           exit |-> IF o = "exc" THEN "raised"
                                                    ELSE IF WExit(o) = 0 THEN "zero" ELSE "nonzero",
                                           located |-> FALSE],
                                 !.effects = IF fs' # fs THEN @ \cup {"tool output"} ELSE @]
             IN th' = [th EXCEPT ![t] =
                  IF o # "exc" /\ WExit(o) = 0
                  THEN [l2 EXCEPT !.pc = "wpoll", !.end = now + 1 + PollTimeout]
                  ELSE NextCandidate(l2)]
  /\ UNCHANGED <<config, conn, delivered, closed>>

\* a loop test that lets the deadline pass by a whole timeout
ExpiredLate(t_now, end) == t_now >= end + PollTimeout

\* while time.time() < end: the test fails
Expired(t_now, end) == ~(t_now < end)

\* one test of "while time.time() < end" and one pass of the loop body of
\* poll_for_output, with what try_run_audiosr_cli does with its result
poll_for_output(t) ==
  /\ program = "vasr_wrapper_cli"
  /\ th[t].pc = "wpoll"
  /\ LET l == th[t]
         found == PollOnce(fs, l.out, dirs_to_check(WrapperCandidates[l.i].save_dir), now)
     IN IF Expired(now, l.end)
        THEN \* return None: "CLI returned 0 but expected output not found"
             /\ th' = [th EXCEPT ![t] = NextCandidate(l)]
             /\ UNCHANGED <<fs, now>>
        ELSE IF found = None
        THEN \* time.sleep(interval), after a scan that took its time
             /\ \E lag \in 0..MaxLag : now' = now + PollInterval + lag
             /\ UNCHANGED <<th, fs>>
        ELSE IF found.id = l.out
        THEN /\ th' = [th EXCEPT ![t] =
                  Exit([l EXCEPT !.located = TRUE, !.last = [@ EXCEPT !.located = TRUE]], 0)]
             /\ UNCHANGED <<fs, now>>
        ELSE LET cp == copyfile(fs, found.id, l.out, writable)
                 l2 == [l EXCEPT !.located = TRUE, !.last = [@ EXCEPT !.located = TRUE],
                                 !.effects = IF cp.ok THEN @ \cup {"copy"} ELSE @]
             IN /\ fs' = IF cp.ok THEN WWrite(fs, l.out, FContent(fs, found.id), now) ELSE fs
                /\ th' = [th EXCEPT ![t] = Exit(l2, IF cp.ok THEN 0 ELSE 2)]
                /\ now' = now
  /\ UNCHANGED <<config, conn, delivered, closed>>

\* a fallback that returns 0 whether or not its copy worked
WFallbackIgnoresFailure(t) ==
  /\ program = "vasr_wrapper_cli"
  /\ th[t].pc = "wfallback"
  /\ LET l == th[t]
         cp == copyfile(fs, l.inp, l.out, writable)
     IN /\ fs' = IF cp.ok THEN WWrite(fs, l.out, FContent(fs, l.inp), now) ELSE fs
        /\ th' = [th EXCEPT ![t] =
             Exit([l EXCEPT !.effects = IF cp.ok THEN @ \cup {"copy"} ELSE @], 0)]
  /\ UNCHANGED <<config, conn, now, delivered, closed>>

\* fallback: copy input -> output
WFallback(t) ==
  /\ program = "vasr_wrapper_cli"
  /\ th[t].pc = "wfallback"
  /\ LET l == th[t]
         cp == copyfile(fs, l.inp, l.out, writable)
     IN /\ fs' = IF cp.ok THEN WWrite(fs, l.out, FContent(fs, l.inp), now) ELSE fs
        /\ th' = [th EXCEPT ![t] =
             Exit([l EXCEPT !.effects = IF cp.ok THEN @ \cup {"copy"} ELSE @],
                  IF cp.ok THEN 0 ELSE 1)]
  /\ UNCHANGED <<config, conn, now, delivered, closed>>

\* The wrapper's runs: the input is fresh, old or missing, the output
\* directory writable or not, an earlier output or a stray recent audio
\* file in the temporary directory is there or not.
InitWrapperTrees ==
  { <<WFile("a1", Raw("a1"), -10)>>,
    <<WFile("a1", Raw("a1"), -5000)>>,
    <<>>,
    <<WFile("b1", Old, -5000), WFile("a1", Raw("a1"), -5000)>>,
    <<WFile("a1", Raw("a1"), -5000), WFile("stray", Old, -20)>>,
    <<WFile("q1", Old, -3000), WFile("a1", Raw("a1"), -200)>> }

InitWrapper ==
  /\ program = "vasr_wrapper_cli"
  /\ always_copy = FALSE
  /\ writable \in BOOLEAN
  /\ fs \in InitWrapperTrees
  /\ fs0 = fs
  /\ now = 0
  /\ listing = <<>>
  /\ result = NotCalled
  /\ stereo = NotStacked
  /\ et = [p \in Conns |-> EtOff]
  /\ tmpdir = {}
  /\ msg = [k \in Conns |-> [body |-> Blank, term |-> "eof"]]
  /\ conn = 0
  /\ th = [t \in Conns |-> Thread0]
  /\ delivered = [k \in Conns |-> <<>>]
  /\ closed = [k \in Conns |-> FALSE]

\* ------------------------------------------------ _find_produced_in_dir alone
\* The locator as a function of a directory content: every listing of up to
\* MaxListing entries: audio files with names in mixed case, older or newer,
\* in search_dir or one level below, a file that is no audio file, and a
\* directory named like a produced file.
EntryNames ==
  {<<"x">>, ProcessedName("x"), <<"AUDIOSR", "x", "processed">>, <<"audiosr", "x">>}

Entries ==
  [id : {"e"}, name : EntryNames, ext : {".WAV"}, isfile : {TRUE}, mtime : {1, 2}, sub : {0, 1}]
    \cup {[id |-> "e", name |-> ProcessedName("x"), ext |-> ".txt", isfile |-> TRUE,
            mtime |-> 2, sub |-> 0],
           [id |-> "e", name |-> ProcessedName("x"), ext |-> ".wav", isfile |-> FALSE,
            mtime |-> 2, sub |-> 0]}

Listings == UNION {[1..n -> Entries] : n \in 0..MaxListing}

InitLocator ==
  /\ program = "locator"
  /\ listing \in Listings
  /\ result = NotCalled
  /\ stereo = NotStacked
  /\ et = [p \in Conns |-> EtOff]
  /\ tmpdir = {}
  /\ always_copy = FALSE
  /\ writable = TRUE
  /\ fs = <<>>
  /\ fs0 = <<>>
  /\ now = 0
  /\ msg = [k \in Conns |-> [body |-> Blank, term |-> "eof"]]
  /\ conn = 0
  /\ th = [t \in Conns |-> Thread0]
  /\ delivered = [k \in Conns |-> <<>>]
  /\ closed = [k \in Conns |-> FALSE]

Locate ==
  /\ program = "locator"
  /\ result = NotCalled
  /\ result' = find_produced_in_dir(TRUE, listing)
  /\ UNCHANGED <<program, always_copy, writable, msg, conn, th, fs, fs0, now, listing,
                 et, tmpdir, stereo, delivered, closed>>

SpecLocator == InitLocator /\ [][Locate]_vars

\* ------------------------------------------------------------ enhance_track.py
\* One run of enhance_track.py <in> <out> [chunk_dur] is a process p.  The
\* input has N frames of nch channels at rate sr; the chunk duration is D2
\* half seconds, so that D * sr can be a whole number or not.
MaxFrames == 3        \* frames per channel of the input
MaxRate == 2          \* sample rates 1..MaxRate
MaxChunk2 == 4        \* chunk durations 1/2 .. MaxChunk2/2 seconds
DefaultChunk2 == 10   \* chunk_dur = 5.0
TARGET_SR == 48000
RealRate == 48000     \* the rate of a 48 kHz input file
RealFrames == 27      \* the length of a short 48 kHz input file

Min(a, b) == IF a < b THEN a ELSE b

\* data, sr = sf.read(input_file): frame n of channel c is the number
\* 10 * c + n; a one-channel file is read as a one-dimensional array
Sample(n, c) == 10 * c + n
Data(N, nch) ==
  IF nch = 1 THEN [n \in 1..N |-> Sample(n, 1)]
  ELSE [n \in 1..N |-> [c \in 1..nch |-> Sample(n, c)]]
Ndim(nch) == IF nch = 1 THEN 1 ELSE 2

\* data[:, c - 1]
Column(data, c) == [n \in 1..Len(data) |-> data[n][c]]

RECURSIVE SumSeq(_)
SumSeq(xs) == IF xs = <<>> THEN 0 ELSE xs[1] + SumSeq(Tail(xs))

\* np.mean(data, axis = 1): per frame, the sum of the channels over their number
np_mean_axis1(data) == [n \in 1..Len(data) |-> [sum |-> SumSeq(data[n]), over |-> Len(data[n])]]

\* a branch that takes every file of more than one channel for stereo
ModeOfStereoForAll(nch) == IF nch = 1 THEN "MONO" ELSE "STEREO"

\* the branch of enhance on data.ndim and data.shape[1]
ModeOf(nch) ==
  IF Ndim(nch) = 1 THEN "MONO"
  ELSE IF Ndim(nch) = 2 /\ nch = 2 THEN "STEREO"
  ELSE "MIX"

\* the channel names of the calls of process_channel_data, in call order
JobsOf(mode) ==
  CASE mode = "MONO" -> <<"Mono">>
    [] mode = "STEREO" -> <<"Links", "Rechts">>
    [] OTHER -> <<"Mix">>

\* the data_channel argument of the call with that channel name
BufferOf(name, N, nch) ==
  CASE name = "Mono" -> Data(N, nch)
    [] name = "Links" -> Column(Data(N, nch), 1)
    [] name = "Rechts" -> Column(Data(N, nch), 2)
    [] OTHER -> np_mean_axis1(Data(N, nch))

\* a chunk length rounded to the nearest sample instead of cut
chunk_samples_rounded(D2, sr) == (D2 * sr + 1) \div 2

\* chunk_samples = int(CHUNK_DURATION * sr)
chunk_samples_of(D2, sr) == (D2 * sr) \div 2

\* duration_sec = len(chunk) / sr is a double, and so is duration_sec *
\* TARGET_SR; int() cuts it.  The quotient is rounded to 53 bits, so the
\* product can fall just below a whole number that the exact value reaches:
\* 27 / 48000 * 48000 is 26.999999999999996 and int() makes 26 of it.  For
\* the other chunk lengths and rates of this model the double computation
\* gives the exact floor.
FloatDeficit(len_chunk, sr) == IF len_chunk = RealFrames /\ sr = RealRate THEN 1 ELSE 0

\* expected_output_samples = int(len(chunk) / sr * TARGET_SR)
expected_output_samples(len_chunk, sr) ==
  (len_chunk * TARGET_SR) \div sr - FloatDeficit(len_chunk, sr)

\* What super_resolution does with a chunk: it returns a waveform shorter
\* than expected, as long, longer, or of one single sample, or it raises.
SROutcomes == {"short", "equal", "long", "one", "error", "oom"}
ReturnedLen(o, expected) ==
  CASE o = "short" -> expected - 1
    [] o = "equal" -> expected
    [] o = "long" -> expected + 1
    [] OTHER -> 1

\* res = waveform.squeeze(): a waveform of one sample becomes a 0-d array,
\* on which len(res) raises TypeError
Unsized(k) == k = 1

\* Laengen-Korrektur: res[:expected] or np.pad(res, (0, missing)); the part
\* is the first `kept` samples of the waveform followed by `zeros` zeros
LengthCorrect(k, expected) ==
  IF k > expected THEN [kept |-> expected, zeros |-> 0]
  ELSE IF k < expected THEN [kept |-> k, zeros |-> expected - k]
  ELSE [kept |-> k, zeros |-> 0]

PartLen(part) == part.kept + part.zeros

\* len(np.concatenate(processed_parts))
RECURSIVE StitchedLen(_)
StitchedLen(parts) == IF parts = <<>> THEN 0 ELSE PartLen(parts[1]) + StitchedLen(Tail(parts))

\* temp_in = os.path.join(tempfile.gettempdir(), f"chunk_{channel_name}_{i}.wav")
TempPath(channel_name, i) == <<"chunk", channel_name, i>>

TmpExists(d, path) == \E f \in d : f.path = path
TmpRemove(d, path) == {f \in d : f.path # path}
TmpWrite(d, path, c) == TmpRemove(d, path) \cup {[path |-> path, c |-> c]}
TmpRead(d, path) == (CHOOSE f \in d : f.path = path).c

\* an except branch that ends the process with exit code 0
EtFailExitsZero(l, e) == [l EXCEPT !.pc = "exited", !.exc = e, !.rc = 0]

\* except Exception as e: ... sys.exit(1); nothing is printed on stdout
EtFail(l, e) == [l EXCEPT !.pc = "exited", !.exc = e, !.rc = 1]

\* the call process_channel_data(model, data_channel, sr, name, chunk_duration)
\* of job j up to the first test of the for loop; range() refuses a step of 0
BeginJob(l, j) ==
  LET cs == chunk_samples_of(l.D2, l.sr)
  IN IF cs = 0 THEN EtFail([l EXCEPT !.job = j, !.chunk_samples = cs],
                           "ValueError: range() arg 3 must not be zero")
     ELSE [l EXCEPT !.pc = "loop", !.job = j, !.i = 0, !.chunk_samples = cs, !.parts = <<>>]

\* if __name__ == "__main__": the argument checks
EtMain(p) ==
  /\ et[p].pc = "main"
  /\ et' = [et EXCEPT ![p] =
       IF et[p].argc < 3 THEN [@ EXCEPT !.pc = "exited", !.rc = 1]
       ELSE IF ~et[p].exists THEN [@ EXCEPT !.pc = "exited", !.rc = 1]
       ELSE [@ EXCEPT !.pc = "enhance"]]
  /\ UNCHANGED <<program, always_copy, writable, msg, conn, th, fs, fs0, now, listing, result, stereo,
                 tmpdir, delivered, closed>>

\* enhance up to its first call of process_channel_data: cleanup_memory,
\* then build_model and sf.read work or raise, then the mode is chosen
EtEnhance(p) ==
  /\ et[p].pc = "enhance"
  /\ \E o \in {"ok", "raise"} :
       et' = [et EXCEPT ![p] =
         LET l == [@ EXCEPT !.log = Append(@, "cleanup")]
         IN IF o = "raise" THEN EtFail(l, "RuntimeError")
            ELSE LET mode == ModeOf(l.nch)
                 IN BeginJob([l EXCEPT !.mode = mode, !.jobs = JobsOf(mode)], 1)]
  /\ UNCHANGED <<program, always_copy, writable, msg, conn, th, fs, fs0, now, listing, result, stereo,
                 tmpdir, delivered, closed>>

\* one pass of the for loop up to the try: cleanup_memory, the chunk, and
\* sf.write(temp_in, chunk, sr), which is not inside the try
EtSegment(p) ==
  /\ et[p].pc = "loop"
  /\ LET l == et[p]
         name == l.jobs[l.job]
         total_samples == Len(BufferOf(name, l.N, l.nch))
         end == Min(l.i + l.chunk_samples, total_samples)
         temp_in == TempPath(name, l.i)
         chunk == [by |-> p, ch |-> name, off |-> l.i, n |-> end - l.i,
                   samples |-> SubSeq(BufferOf(name, l.N, l.nch), l.i + 1, end)]
         l2 == [l EXCEPT !.segs = Append(@, [ch |-> name, i |-> l.i, end |-> end]),
                         !.temp_in = temp_in, !.log = Append(@, "cleanup")]
     IN /\ l.i < total_samples
        /\ \E o \in {"ok", "fail", "partial"} :
             /\ tmpdir' = IF o = "fail" THEN tmpdir ELSE TmpWrite(tmpdir, temp_in, chunk)
             /\ et' = [et EXCEPT ![p] =
                  IF o = "ok" THEN [l2 EXCEPT !.pc = "invoke"]
                  ELSE EtFail(l2, "sf.write: error writing the temporary file")]
  /\ UNCHANGED <<program, always_copy, writable, msg, conn, th, fs, fs0, now, listing, result, stereo,
                 delivered, closed>>

\* a try without its finally: no cleanup_memory after an invocation that raised
InvokedNoFinally(l, raised) ==
  [l EXCEPT !.log = IF raised THEN Append(@, "invoke") ELSE @ \o <<"invoke", "cleanup">>]

\* what the try/finally leaves in the log of calls: the invocation of
\* super_resolution, then the cleanup_memory of the finally, raised or not
Invoked(l, raised) == [l EXCEPT !.log = @ \o <<"invoke", "cleanup">>]

\* the try/finally of one pass: super_resolution(model, temp_in, ...), the
\* length correction, processed_parts.append(res); finally the temporary
\* file is removed and cleanup_memory is called
EtInvoke(p) ==
  /\ et[p].pc = "invoke"
  /\ LET l == et[p]
         seg == l.segs[Len(l.segs)]
         expected == expected_output_samples(seg.end - seg.i, l.sr)
     IN \E o \in SROutcomes :
          /\ (o \in {"short", "equal", "long", "one"}) => TmpExists(tmpdir, l.temp_in)
          /\ tmpdir' = TmpRemove(tmpdir, l.temp_in)
          /\ et' = [et EXCEPT ![p] =
               CASE o = "error" -> EtFail(Invoked(l, TRUE), "RuntimeError")
                 [] o = "oom" -> EtFail(Invoked(l, TRUE), "CUDA out of memory")
                 [] Unsized(ReturnedLen(o, expected)) /\ o \notin {"error", "oom"} ->
                      EtFail(Invoked(l, TRUE), "TypeError: len() of unsized object")
                 [] OTHER ->
                      LET c == LengthCorrect(ReturnedLen(o, expected), expected)
                          part == [src |-> TmpRead(tmpdir, l.temp_in),
                                   got |-> ReturnedLen(o, expected),
                                   kept |-> c.kept, zeros |-> c.zeros]
                      IN [Invoked(l, FALSE) EXCEPT !.pc = "loop", !.parts = Append(@, part),
                                                   !.i = @ + l.chunk_samples]]
  /\ UNCHANGED <<program, always_copy, writable, msg, conn, th, fs, fs0, now, listing, result, stereo,
                 delivered, closed>>

\* after the loop: return np.concatenate(processed_parts), which refuses an
\* empty list; then enhance calls the next channel or goes on to write
EtReturn(p) ==
  /\ et[p].pc = "loop"
  /\ LET l == et[p]
         name == l.jobs[l.job]
     IN /\ l.i >= Len(BufferOf(name, l.N, l.nch))
        /\ et' = [et EXCEPT ![p] =
             IF l.parts = <<>>
             THEN EtFail(l, "ValueError: need at least one array to concatenate")
             ELSE LET l2 == [l EXCEPT !.enhanced = Append(@, [ch |-> name, parts |-> l.parts])]
                  IN IF l.job < Len(l.jobs)
                     THEN \* del left_channel; cleanup_memory()
                          BeginJob([l2 EXCEPT !.log = Append(@, "cleanup")], l.job + 1)
                     ELSE [l2 EXCEPT !.pc = "write"]]
  /\ UNCHANGED <<program, always_copy, writable, msg, conn, th, fs, fs0, now, listing, result, stereo,
                 tmpdir, delivered, closed>>

\* final_audio as enhance builds it: one stitched channel, or for STEREO the
\* two channels cut to min_len frames and stacked
final_audio_of(l) ==
  IF l.mode = "STEREO"
  THEN [channels |-> 2,
        frames |-> Min(StitchedLen(l.enhanced[1].parts), StitchedLen(l.enhanced[2].parts)),
        cols |-> l.enhanced]
  ELSE [channels |-> 1, frames |-> StitchedLen(l.enhanced[1].parts), cols |-> l.enhanced]

\* sf.write(output_file, final_audio, 48000); return True; print("SUCCESS")
EtWrite(p) ==
  /\ et[p].pc = "write"
  /\ \E o \in {"ok", "raise"} :
       et' = [et EXCEPT ![p] =
         IF o = "raise" THEN EtFail(@, "sf.write: error writing the output file")
         ELSE [@ EXCEPT !.pc = "exited", !.out = final_audio_of(et[p]),
                        !.stdout = Append(@, "SUCCESS"), !.rc = 0]]
  /\ UNCHANGED <<program, always_copy, writable, msg, conn, th, fs, fs0, now, listing, result, stereo,
                 tmpdir, delivered, closed>>

\* the command lines: too few arguments, a missing input file, an input
\* of N frames and nch channels at rate sr with the default chunk duration
\* or a given one, or a short mono file at 48 kHz
EtInputs ==
  {[EtOff EXCEPT !.pc = "main", !.argc = 2],
   [EtOff EXCEPT !.pc = "main", !.argc = 3, !.D2 = DefaultChunk2]}
  \cup {[EtOff EXCEPT !.pc = "main", !.argc = a, !.exists = TRUE, !.nch = c, !.N = n,
                      !.sr = r, !.D2 = IF a = 3 THEN DefaultChunk2 ELSE d] :
          a \in {3, 4}, c \in 1..3, n \in 0..MaxFrames, r \in 1..MaxRate, d \in 1..MaxChunk2}
  \cup {[EtOff EXCEPT !.pc = "main", !.argc = 3, !.exists = TRUE, !.nch = 1, !.N = RealFrames,
                      !.sr = RealRate, !.D2 = DefaultChunk2]}

InitEnhance ==
  /\ program = "enhance_track"
  /\ et \in [Conns -> EtInputs \cup {EtOff}]
  /\ et[1] # EtOff
  /\ \A p \in Conns : p > 1 => et[p] = EtOff
  /\ tmpdir = {}
  /\ listing = <<>>
  /\ result = NotCalled
  /\ stereo = NotStacked
  /\ always_copy = FALSE
  /\ writable = TRUE
  /\ fs = <<>>
  /\ fs0 = <<>>
  /\ now = 0
  /\ msg = [k \in Conns |-> [body |-> Blank, term |-> "eof"]]
  /\ conn = 0
  /\ th = [t \in Conns |-> Thread0]
  /\ delivered = [k \in Conns |-> <<>>]
  /\ closed = [k \in Conns |-> FALSE]

NextEnhance ==
  \/ \E p \in Conns : EtMain(p)
  \/ \E p \in Conns : EtEnhance(p)
  \/ \E p \in Conns : EtSegment(p)
  \/ \E p \in Conns : EtInvoke(p)
  \/ \E p \in Conns : EtReturn(p)
  \/ \E p \in Conns : EtWrite(p)

SpecEnhance == InitEnhance /\ [][NextEnhance]_vars

\* Two runs of enhance_track.py at the same time, as two requests start
\* them: each has its own input file, and both use tempfile.gettempdir()
ConcurrentInputs ==
  {[EtOff EXCEPT !.pc = "main", !.argc = 4, !.exists = TRUE, !.nch = c, !.N = n,
                 !.sr = 1, !.D2 = 2] : c \in 1..2, n \in 1..2}

InitConcurrent ==
  /\ program = "enhance_track"
  /\ et \in [Conns -> ConcurrentInputs]
  /\ tmpdir = {}
  /\ listing = <<>>
  /\ result = NotCalled
  /\ stereo = NotStacked
  /\ always_copy = FALSE
  /\ writable = TRUE
  /\ fs = <<>>
  /\ fs0 = <<>>
  /\ now = 0
  /\ msg = [k \in Conns |-> [body |-> Blank, term |-> "eof"]]
  /\ conn = 0
  /\ th = [t \in Conns |-> Thread0]
  /\ delivered = [k \in Conns |-> <<>>]
  /\ closed = [k \in Conns |-> FALSE]

SpecConcurrent == InitConcurrent /\ [][NextEnhance]_vars

\* ------------------------------------------------- the STEREO recombination
\* lines 146-151 of enhance as a function of the two enhanced buffers, given
\* every pair of buffers of up to MaxStitched samples
MaxStitched == 3

\* xs[:n] for n >= 0
SliceTo(xs, n) == SubSeq(xs, 1, Min(n, Len(xs)))

\* np.column_stack((a, b)) of two one-dimensional arrays: frame j is
\* (a[j], b[j]); arrays of different lengths are refused
column_stack(a, b) ==
  IF Len(a) = Len(b) THEN [state |-> "ok", frames |-> [j \in 1..Len(a) |-> <<a[j], b[j]>>]]
  ELSE [state |-> "ValueError", frames |-> <<>>]

\* the length of the left buffer alone
min_len_left_only(enhanced_left, enhanced_right) == Len(enhanced_left)

\* min_len = min(len(enhanced_left), len(enhanced_right))
min_len_of(enhanced_left, enhanced_right) == Min(Len(enhanced_left), Len(enhanced_right))

\* final_audio of the STEREO branch
stack_stereo(enhanced_left, enhanced_right) ==
  LET min_len == min_len_of(enhanced_left, enhanced_right)
  IN column_stack(SliceTo(enhanced_left, min_len), SliceTo(enhanced_right, min_len))

RECURSIVE SeqsUpTo(_, _)
SeqsUpTo(S, n) ==
  IF n = 0 THEN {<<>>}
  ELSE LET shorter == SeqsUpTo(S, n - 1)
       IN shorter \cup {Append(xs, x) : xs \in shorter, x \in S}

Buffers == SeqsUpTo({0, 1}, MaxStitched)

InitStereo ==
  /\ program = "stereo"
  /\ stereo \in [left : Buffers, right : Buffers, out : {NoFrames}]
  /\ listing = <<>>
  /\ result = NotCalled
  /\ et = [p \in Conns |-> EtOff]
  /\ tmpdir = {}
  /\ always_copy = FALSE
  /\ writable = TRUE
  /\ fs = <<>>
  /\ fs0 = <<>>
  /\ now = 0
  /\ msg = [k \in Conns |-> [body |-> Blank, term |-> "eof"]]
  /\ conn = 0
  /\ th = [t \in Conns |-> Thread0]
  /\ delivered = [k \in Conns |-> <<>>]
  /\ closed = [k \in Conns |-> FALSE]

StackStereo ==
  /\ program = "stereo"
  /\ stereo.out.state = "none"
  /\ stereo' = [stereo EXCEPT !.out = stack_stereo(stereo.left, stereo.right)]
  /\ UNCHANGED <<program, always_copy, writable, msg, conn, th, fs, fs0, now, listing, result,
                 et, tmpdir, delivered, closed>>

SpecStereo == InitStereo /\ [][StackStereo]_vars

Next ==
  \/ Accept
  \/ \E t \in Conns : Recv(t)
  \/ \E t \in Conns : handle_conn(t)
  \/ \E t \in Conns : handle_client(t)
  \/ \E t \in Conns : run_candidates_and_find(t)
  \/ \E t \in Conns : Probe(t)
  \/ \E t \in Conns : Split(t)
  \/ \E t \in Conns : Merge(t)
  \/ \E t \in Conns : Final(t)
  \/ \E t \in Conns : Send(t)
  \/ WStart
  \/ \E t \in Conns : try_run_audiosr_cli(t)
  \/ \E t \in Conns : poll_for_output(t)
  \/ \E t \in Conns : WFallback(t)
  \/ \E t \in Conns : Close(t)

Init == InitServer \/ InitWrapper

\* the single run of vasr_wrapper.py alone; it is one process that the
\* system keeps running: a step that can be taken is taken
NextWrapper ==
  \/ WStart
  \/ \E t \in Conns : try_run_audiosr_cli(t)
  \/ \E t \in Conns : poll_for_output(t)
  \/ \E t \in Conns : WFallback(t)

SpecWrapper == InitWrapper /\ [][NextWrapper]_vars /\ WF_vars(NextWrapper)

Spec == Init /\ [][Next]_vars

\* ===================================================================== claims
\* a request object whose input or output is missing or empty
InvalidObj(m) ==
  /\ m.body.t = "obj"
  /\ (m.body.input \in {Missing, ""} \/ m.body.output \in {Missing, ""})

\* worker t has come to the end of a run of the out-of-process invoker
Finished(t) == th[t].pc \in {"send", "exited"} /\ th[t].tier # ""

NCandidates == IF program = "vasr_wrapper_cli" THEN Len(WrapperCandidates) ELSE Len(ServerCandidates)

\* C1: in vasr_server, when a candidate of the single-file tier has exited 0
\* and its output was located, the response is rc = 0 and a file exists at
\* the request's output path when the response is sent.
C1_SuccessRoundTrip ==
  \A t \in Conns :
    (/\ program = "vasr_server"
     /\ th[t].pc = "send"
     /\ th[t].last.tier = "single"
     /\ th[t].last.exit = "zero"
     /\ th[t].last.located)
    => (th[t].resp.rc = 0 /\ FExists(fs, th[t].out))

\* C2: in both servers a request object whose input or output is missing or
\* empty is answered with rc = 5; its handler runs no candidate, copies no
\* file and creates no file or directory, and when no client sends a valid
\* request the directories stay exactly as they were.
C2_InvalidRequest ==
  /\ \A t \in Conns :
       (th[t].sock # 0 /\ InvalidObj(msg[th[t].sock]))
       => /\ th[t].pc \in {"recv", "handle", "send", "close", "done"}
          /\ th[t].effects = {}
          /\ th[t].last = NoRan
          /\ th[t].pc = "send" => th[t].resp.rc = 5
  /\ \A k \in Conns :
       InvalidObj(msg[k]) => \A i \in 1..Len(delivered[k]) : delivered[k][i].rc = 5
  /\ (program \in {"vasr_server", "vasr_wrapper_server"} /\ \A k \in Conns : ~Valid(msg[k]))
       => fs = fs0

C2_Witness ==
  \E k \in Conns :
    /\ program = "vasr_server"
    /\ InvalidObj(msg[k])
    /\ closed[k]
    /\ Len(delivered[k]) = 1
    /\ delivered[k][1].rc = 5
    /\ fs = fs0

\* C3: a connection the server has closed, whose client stayed to read, has
\* received exactly one response, whatever the client sent (a request, bytes
\* that are no JSON, no newline, or nothing before closing its side).
C3_OneResponseThenClosed ==
  \A k \in Conns :
    (closed[k] /\ msg[k].term \in {"nl", "eof", "midnl"}) => Len(delivered[k]) = 1

\* C4: no exception leaves a connection handler: no worker thread of either
\* server ends with an exception.
C4_NoExceptionEscapes == \A t \in Conns : th[t].pc # "crashed" /\ th[t].exc = ""

\* C5: no cross-talk: each worker reads the request of its own connection
\* and works on that request's paths, and what a client receives is at most
\* one response, computed from its own request's paths.
C5_NoCrossTalk ==
  /\ \A t \in Conns :
       th[t].sock # 0 =>
         /\ th[t].inp \in {"", msg[th[t].sock].body.input}
         /\ th[t].out \in {"", msg[th[t].sock].body.output}
         /\ th[t].pc = "send" =>
              /\ th[t].resp.inp \in {"", msg[th[t].sock].body.input}
              /\ th[t].resp.out \in {"", msg[th[t].sock].body.output}
  /\ \A t1, t2 \in Conns : (t1 # t2 /\ th[t1].sock # 0) => th[t1].sock # th[t2].sock
  /\ \A k \in Conns :
       /\ Len(delivered[k]) <= 1
       /\ \A i \in 1..Len(delivered[k]) :
            /\ delivered[k][i].inp \in {"", msg[k].body.input}
            /\ delivered[k][i].out \in {"", msg[k].body.output}

\* two requests in flight at once, each about to be answered from its own paths
C5_Witness ==
  /\ \A t \in Conns : th[t].pc = "send" /\ Valid(msg[th[t].sock])
  /\ th[1].resp.inp = InputOf(th[1].sock)
  /\ th[2].resp.inp = InputOf(th[2].sock)
  /\ th[1].resp.inp # th[2].resp.inp

\* C6: when a run of the invoker ends with no candidate having succeeded,
\* no output of the tool written and no file ever located, then either the
\* result code is nonzero and the output path is as it was before, or the
\* output path holds the bytes of the input (vasr_server and the wrapper).
C6_FullChainFailure ==
  \A t \in Conns :
    (Finished(t) /\ ~th[t].located /\ "tool output" \notin th[t].effects)
    => \/ (th[t].resp.rc # 0 /\ FContent(fs, th[t].out) = FContent(fs0, th[t].out))
       \/ FContent(fs, th[t].out) = Raw(th[t].inp)

\* all three candidates of vasr_server failed, nothing was located, and the
\* final fallback has copied the input to the output path
C6_Witness ==
  \E t \in Conns :
    /\ program = "vasr_server"
    /\ th[t].pc = "send"
    /\ th[t].last = [tier |-> "single", i |-> Len(ServerCandidates), exit |-> "nonzero",
                     located |-> FALSE]
    /\ ~th[t].located
    /\ th[t].resp.rc = 3
    /\ ~FExists(fs0, th[t].out)
    /\ FContent(fs, th[t].out) = Raw(th[t].inp)

\* C7: in vasr_server, once the probe has reported two or more channels, a
\* request that fails in the stereo tier (at the split, at a channel's
\* enhancement or at the merge) ends with the input copied to the output
\* path, wherever the input can be read and the output written.
C7_StereoFallback ==
  \A t \in Conns :
    (/\ program = "vasr_server"
     /\ th[t].pc = "send"
     /\ "mkdtemp" \in th[t].effects
     /\ th[t].resp.rc # 0
     /\ writable
     /\ FExists(fs, th[t].inp))
    => FContent(fs, th[t].out) = Raw(th[t].inp)

\* C8: the invoker runs its candidates in list order; a candidate that exits
\* 0 with its output located ends the run, and no later candidate runs; a
\* candidate that exits 0 without a locatable output ends the run only if it
\* is the last of the list.
C8_CandidateIteration ==
  \A t \in Conns :
    /\ (th[t].pc \in {"cand", "wcand"} /\ th[t].last.tier = th[t].tier)
         => th[t].i = th[t].last.i + 1
    /\ (th[t].last.exit = "zero" /\ th[t].last.located) => th[t].pc \in {"send", "exited"}
    /\ (Finished(t) /\ th[t].last.exit = "zero" /\ ~th[t].last.located)
         => th[t].last.i = NCandidates

\* a file at the expected output path, or one the locator finds in the save
\* directory out_dir
PlausibleOutput(s, out) ==
  FExists(s, out) \/ find_produced_in_dir(TRUE, Listing(s, FileInfo(out).dir)) # None

\* C9: a candidate that exits with a nonzero code, after which the expected
\* output path exists or the locator finds a file in the save directory,
\* ends the run with result code 0.
C9_NonzeroWithOutput ==
  [][\A t \in Conns :
       (/\ th[t].pc \in {"cand", "wcand"}
        /\ th[t].tier \in {"single", "wrapper"}
        /\ th'[t] # th[t]
        /\ th'[t].last.exit = "nonzero"
        /\ PlausibleOutput(fs', th[t].out))
       => (th'[t].pc \in {"send", "exited"} /\ th'[t].resp.rc = 0)]_vars

\* an audio file whose name holds both markers
BothMarkers(e) ==
  /\ e.isfile
  /\ Lower(e.ext) \in AUDIO_EXTS
  /\ InName("audiosr", e.name)
  /\ InName("processed", e.name)

ChannelSegs(l, name) == SelectSeq(l.segs, LAMBDA g : g.ch = name)
Completed(l, name) == \E j \in 1..Len(l.enhanced) : l.enhanced[j].ch = name
ChannelNames == {"Mono", "Links", "Rechts", "Mix"}

\* C11 (as the code has it): with c = floor(D * sr) >= 1 samples per chunk,
\* the segments of a channel of N samples are visited in increasing offset
\* order, segment j being [(j-1)c, min(jc, N)), contiguous and not
\* overlapping; a channel that was cut completely has ceil(N / c) segments
\* whose lengths sum to N, the last of N mod c samples, or c when that is 0.
C11_SegmentPlanning ==
  \A p \in Conns : \A name \in ChannelNames :
    LET l == et[p]
        c == (l.D2 * l.sr) \div 2
        g == ChannelSegs(l, name)
    IN /\ \A j \in 1..Len(g) :
            /\ c >= 1
            /\ g[j].i = (j - 1) * c
            /\ g[j].end = Min(j * c, l.N)
            /\ g[j].i < g[j].end
       /\ Completed(l, name) =>
            /\ Len(g) = (l.N + c - 1) \div c
            /\ SumSeq([j \in 1..Len(g) |-> g[j].end - g[j].i]) = l.N
            /\ g[Len(g)].end - g[Len(g)].i = (IF l.N % c = 0 THEN c ELSE l.N % c)

\* a channel cut into two or more segments, the last one shorter than a chunk
C11_Witness ==
  \E p \in Conns :
    /\ Completed(et[p], "Mono")
    /\ Len(ChannelSegs(et[p], "Mono")) >= 2
    /\ et[p].N % et[p].chunk_samples # 0

\* C11 (as the spec has it): a channel that was cut completely has
\* ceil(N / (D * sr)) segments whose lengths sum to N, the last of
\* N mod (D * sr) samples, or D * sr when that is 0 (D * sr = D2 * sr / 2).
C11_PlanBySpecFormula ==
  \A p \in Conns : \A name \in ChannelNames :
    LET l == et[p]
        g == ChannelSegs(l, name)
        dsr2 == l.D2 * l.sr
    IN Completed(l, name) =>
         /\ Len(g) = (2 * l.N + dsr2 - 1) \div dsr2
         /\ SumSeq([j \in 1..Len(g) |-> g[j].end - g[j].i]) = l.N
         /\ 2 * (g[Len(g)].end - g[Len(g)].i)
              = (IF (2 * l.N) % dsr2 = 0 THEN dsr2 ELSE (2 * l.N) % dsr2)

\* C12: a buffer no longer than one chunk (D * sr >= N) is cut into exactly
\* one segment that covers all of it, and an empty buffer (N = 0) gives no
\* segment and the channel is passed over without raising.
C12_EdgeCases ==
  \A p \in Conns : \A name \in ChannelNames :
    LET l == et[p]
        g == ChannelSegs(l, name)
    IN /\ (Completed(l, name) /\ l.N >= 1 /\ l.D2 * l.sr >= 2 * l.N) =>
            g = <<[ch |-> name, i |-> 0, end |-> l.N]>>
       /\ l.N = 0 =>
            /\ g = <<>>
            /\ l.exc # "ValueError: need at least one array to concatenate"

\* the parts of channel `name`: those being collected, or those returned
PartsOf(l, name) ==
  IF Completed(l, name)
  THEN (CHOOSE e \in {l.enhanced[j] : j \in 1..Len(l.enhanced)} : e.ch = name).parts
  ELSE IF l.job >= 1 /\ l.job <= Len(l.jobs) /\ l.jobs[l.job] = name THEN l.parts
  ELSE <<>>

\* C13: whatever length super_resolution returned for a segment, the part
\* appended for it has exactly floor(segment_duration * 48000) =
\* floor(len(chunk) * 48000 / sr) samples: the head of
\* the waveform cut at the tail, or all of it followed by zeros; part j
\* belongs to segment j, and a stitched channel is as long as the sum of the
\* expected lengths of its segments.
C13_LengthNormalisation ==
  \A p \in Conns : \A name \in ChannelNames :
    LET l == et[p]
        g == ChannelSegs(l, name)
        ps == PartsOf(l, name)
        want(j) == ((g[j].end - g[j].i) * 48000) \div l.sr
    IN /\ Len(ps) <= Len(g)
       /\ \A j \in 1..Len(ps) :
            /\ ps[j].src.off = g[j].i /\ ps[j].src.n = g[j].end - g[j].i
            /\ ps[j].kept + ps[j].zeros = want(j)
            /\ ps[j].kept = Min(ps[j].got, want(j))
       /\ Completed(l, name) =>
            /\ Len(ps) = Len(g)
            /\ StitchedLen(ps) = SumSeq([j \in 1..Len(g) |-> want(j)])

\* C14: for any two enhanced channel buffers, the stereo buffer that enhance
\* stacks has exactly min(len_left, len_right) frames, and frame i is
\* (left[i], right[i]); only indices inside both buffers are read.
C14_StereoRecombination ==
  stereo.out.state # "none" =>
    /\ stereo.out.state = "ok"
    /\ Len(stereo.out.frames) = Min(Len(stereo.left), Len(stereo.right))
    /\ \A i \in 1..Len(stereo.out.frames) :
         /\ i \in DOMAIN stereo.left /\ i \in DOMAIN stereo.right
         /\ stereo.out.frames[i] = <<stereo.left[i], stereo.right[i]>>

\* two buffers of different lengths and different samples have been stacked
C14_Witness ==
  /\ stereo.out.state = "ok"
  /\ Len(stereo.left) > Len(stereo.right)
  /\ Len(stereo.right) >= 2
  /\ SubSeq(stereo.left, 1, Len(stereo.right)) # stereo.right

\* C15: the mode is a function of the channel count alone and stays as it
\* was chosen: one channel runs the one job "Mono" on the data as read and
\* writes one channel; two channels run "Links" on the first column to its
\* end, then "Rechts" on the second, and write two channels; more than two
\* run the one job "Mix" on the per-frame mean of all channels and write
\* one channel.  Every chunk handed to the model is cut from that buffer.
C15_ModeSelection ==
  \A p \in Conns :
    LET l == et[p]
        FromBuffer(name, sample(_)) ==
          \A j \in 1..Len(PartsOf(l, name)) :
            LET src == PartsOf(l, name)[j].src
            IN src.samples = [k \in 1..src.n |-> sample(src.off + k)]
        mean(n) == [sum |-> SumSeq([c \in 1..l.nch |-> Sample(n, c)]), over |-> l.nch]
        col1(n) == Sample(n, 1)
        col2(n) == Sample(n, 2)
    IN l.mode # "" =>
         /\ l.nch = 1 => /\ l.mode = "MONO" /\ l.jobs = <<"Mono">>
                         /\ FromBuffer("Mono", col1)
                         /\ l.pc = "exited" /\ l.rc = 0 => l.out.channels = 1
         /\ l.nch = 2 => /\ l.mode = "STEREO" /\ l.jobs = <<"Links", "Rechts">>
                         /\ FromBuffer("Links", col1) /\ FromBuffer("Rechts", col2)
                         /\ ChannelSegs(l, "Rechts") # <<>> => Completed(l, "Links")
                         /\ Completed(l, "Links") => l.job = 2
                         /\ l.pc = "exited" /\ l.rc = 0 =>
                              /\ l.out.channels = 2
                              /\ Completed(l, "Links") /\ Completed(l, "Rechts")
         /\ l.nch > 2 => /\ l.mode = "MIX" /\ l.jobs = <<"Mix">>
                         /\ FromBuffer("Mix", mean)
                         /\ l.pc = "exited" /\ l.rc = 0 => l.out.channels = 1
         /\ \A j \in 1..Len(l.segs) : \E k \in 1..l.job : l.segs[j].ch = l.jobs[k]
         /\ \A j, k \in 1..Len(l.segs) :
              (j < k /\ l.segs[j].ch = "Rechts") => l.segs[k].ch = "Rechts"

\* a three-channel file was mixed down in two or more segments and written
C15_Witness ==
  \E p \in Conns :
    /\ et[p].pc = "exited" /\ et[p].rc = 0
    /\ et[p].nch = 3
    /\ Len(PartsOf(et[p], "Mix")) >= 2

\* C16: every run of enhance_track.py that has ended has printed one final
\* status line on standard output that matches its exit code: "SUCCESS"
\* with exit code 0, or "FAILED" with a nonzero exit code, also when
\* enhance raised an exception.
C16_FinalStatusLine ==
  \A p \in Conns :
    et[p].pc = "exited" =>
      \/ et[p].rc = 0 /\ et[p].stdout = <<"SUCCESS">>
      \/ et[p].rc # 0 /\ et[p].stdout = <<"FAILED">>

\* C17: in vasr_server --always-copy a request with both fields runs no
\* candidate and no external tool; when the copy can be made (the input
\* exists and the output's directory can be written) the output holds the
\* input's bytes and the response is rc = 0, and when it cannot the response
\* is rc = 7.
C17_AlwaysCopy ==
  (program = "vasr_server" /\ always_copy) =>
    \A t \in Conns :
      (th[t].pc = "send" /\ th[t].out # "") =>
        LET l == th[t]
            CanCopy == FExists(fs0, l.inp) /\ writable
        IN /\ l.effects \subseteq {"copy"}
           /\ l.tier = "" /\ l.i = 0
           /\ CanCopy => /\ l.resp.rc = 0
                         /\ FContent(fs, l.out) = FContent(fs0, l.inp)
           /\ ~CanCopy => l.resp.rc = 7 /\ l.resp.stderr # ""

ExceptionTexts ==
  {"JSONDecodeError", "AttributeError: 'list' object has no attribute 'get'",
   NameError0, NameError1}

\* C19: a response has rc = 6 exactly when an exception was raised while
\* the request was parsed or dispatched, and then its stderr is the
\* exception's message; a request that was parsed to an object and
\* dispatched without an exception is never answered with rc = 6.
C19_InternalErrorOnly ==
  \A t \in Conns :
    (th[t].pc = "send" /\ th[t].resp.rc = 6) => th[t].resp.stderr \in ExceptionTexts

\* C20: with concurrent requests, also with outputs in one directory, a
\* produced file that vasr_server has put at a request's output path was
\* produced by that request's own worker from its own input (or merged by
\* its own worker), never produced for another request.
C20_WorkerIsolation ==
  program = "vasr_server" =>
    \A k \in Conns : \A out \in {OutputOf(k), BareOutputOf(k)} :
      LET c == FContent(fs, out)
      IN /\ c.k = "enh" => c.of = InputOf(k) /\ c.by = k
         /\ c.k = "merged" => c.by = k

\* C21: two segment invocations that are in progress at the same time, in
\* two channels or in two processes, never use the same temporary file
\* path, and no invocation reads a temporary file that another one wrote.
C21_NoTempCollision ==
  /\ \A p, q \in Conns :
       (p # q /\ et[p].pc = "invoke" /\ et[q].pc = "invoke") => et[p].temp_in # et[q].temp_in
  /\ \A p \in Conns : \A name \in ChannelNames :
       \A j \in 1..Len(PartsOf(et[p], name)) : PartsOf(et[p], name)[j].src.by = p

\* C22: the temporary file of a segment is removed before the next segment
\* starts and before process_channel_data returns or raises, on every exit
\* path: a run has at most one temporary file at any time, none between two
\* segments, and none once it has ended.
C22_TempFileBracket ==
  /\ Cardinality(tmpdir) <= 1
  /\ \A p \in Conns :
       et[p].pc \in {"loop", "write", "exited"} => \A f \in tmpdir : f.c.by # p

\* C23: in the order of a run's calls, every invocation of super_resolution
\* comes directly after a cleanup_memory call, which is therefore later
\* than the previous invocation, and is directly followed by a
\* cleanup_memory call, which is therefore earlier than the next one; the
\* following call is made also when the invocation raised.
C23_MemoryBracket ==
  \A p \in Conns :
    LET log == et[p].log
    IN \A j \in 1..Len(log) :
         log[j] = "invoke" =>
           /\ j > 1 /\ log[j - 1] = "cleanup"
           /\ j < Len(log) /\ log[j + 1] = "cleanup"

\* a run whose second invocation raised out of memory
C23_Witness ==
  \E p \in Conns :
    /\ et[p].pc = "exited" /\ et[p].exc = "CUDA out of memory"
    /\ Len(SelectSeq(et[p].log, LAMBDA e : e = "invoke")) = 2

\* the steps of the fallback chain of a request, and its last tier
ChainSteps == {"cand", "probe", "split", "merge", "final", "wcand", "wpoll", "wfallback"}
LastTier == {"final", "wfallback"}

\* C24: a nonzero result code reaches the caller only from the last tier,
\* the final locate-or-copy-input fallback, after the candidates and the
\* stereo tier; no earlier step of the chain ends the request with a
\* nonzero code.
C24_PropagationPolicy ==
  [][\A t \in Conns :
       (/\ th[t].pc \in ChainSteps
        /\ th'[t].pc \in {"send", "exited"}
        /\ th'[t].resp.rc # 0) => th[t].pc \in LastTier]_vars

\* C25 (as the code has it): poll_for_output always ends.  A pass of its
\* loop begins only while the deadline has not passed; a pass that finds
\* the expected output or a recent audio file returns it without sleeping;
\* the loop returns None at the first test at or after the deadline, which
\* comes later than the deadline by less than one pass (the scan and the
\* sleep of one poll interval).
C25_BoundedPolling ==
  /\ [][\A t \in Conns :
          th[t].pc = "wpoll" =>
            LET l == th[t]
                found == PollOnce(fs, l.out, dirs_to_check(WrapperCandidates[l.i].save_dir), now)
            IN /\ (th'[t].pc = "wpoll" /\ now' # now) => (now < l.end /\ found = None)
               /\ th'[t].pc = "exited" => (now < l.end /\ found # None)
               /\ (now < l.end /\ found # None) => th'[t].pc = "exited"
               /\ th'[t].pc \in {"wcand", "wfallback"} =>
                    (now >= l.end /\ now < l.end + PollInterval + MaxLag)]_vars
  /\ \A t \in Conns : (th[t].pc = "wpoll") ~> (th[t].pc # "wpoll")

\* the loop is at its test with the deadline passed
C25_Witness ==
  \E t \in Conns : th[t].pc = "wpoll" /\ now >= th[t].end /\ th[t].i = 2

\* C25 (as the spec has it): the loop is never past its deadline by more
\* than one poll interval.
C25_OvershootOneInterval ==
  \A t \in Conns : th[t].pc = "wpoll" => now <= th[t].end + PollInterval

\* the enhancement call of a segment raised, out of memory included
InvocationFailed(l) == l.exc \in {"RuntimeError", "CUDA out of memory"} /\ l.segs # <<>>

\* C26: when super_resolution fails for a segment, the run is over: the
\* segment was invoked once and is the last one started, every earlier
\* segment has its part and the failed one has none, no output file is
\* written, nothing is printed on standard output, and the process has
\* exited with code 1.
C26_SegmentFailureAborts ==
  \A p \in Conns :
    LET l == et[p]
        invoked == Len(SelectSeq(l.log, LAMBDA e : e = "invoke"))
        appended == SumSeq([j \in 1..Len(l.enhanced) |-> Len(l.enhanced[j].parts)]) + Len(l.parts)
    IN InvocationFailed(l) =>
         /\ l.pc = "exited" /\ l.rc = 1
         /\ l.out = [none |-> TRUE]
         /\ l.stdout = <<>>
         /\ invoked = Len(l.segs)
         /\ appended = Len(l.segs) - 1
         /\ l.segs[Len(l.segs)].ch = l.jobs[l.job]
         /\ l.segs[Len(l.segs)].i = l.i

\* the right channel ran out of memory after the left channel was enhanced
C26_Witness ==
  \E p \in Conns :
    /\ et[p].exc = "CUDA out of memory"
    /\ Completed(et[p], "Links")
    /\ Len(ChannelSegs(et[p], "Rechts")) = 2

\* C27: whenever the single run of the wrapper returns 0, a file is at the
\* output path that this run put there (the tool's own output, a copy of a
\* located file, or a copy of the input); a run that put no file at the
\* output path returns a nonzero code.
C27_WrapperPostcondition ==
  \A t \in Conns :
    (program = "vasr_wrapper_cli" /\ th[t].pc = "exited" /\ th[t].resp.rc = 0) =>
      /\ FExists(fs, th[t].out)
      /\ MTime(fs, th[t].out) >= 0
      /\ FContent(fs, th[t].out).k \in {"enh", "raw", "old"}

====
